---- MODULE Spec2Model ----
(***************************************************************************)
(* A model of src/inotify/binding/binding.c: the four functions of the     *)
(* inotify.binding extension module (init, add_watch, rm_watch,            *)
(* get_events), the kernel objects they act on (the descriptor table, the  *)
(* watches and the event queue of each inotify instance) and the decode    *)
(* loop of get_events over the bytes returned by read(2).                  *)
(*                                                                         *)
(* Two specifications:                                                     *)
(*   SpecDecode  the decode loop as a function of (buffer, length)         *)
(*   Spec        the extension module's calls against the kernel           *)
(***************************************************************************)
EXTENDS Integers, Sequences, FiniteSets, TLC

VARIABLES
    din,            \* decode: the input (records encoded, bytes, length, garbage)
    dout,           \* decode: the outcome of the loop
    open,           \* kernel: the descriptors that are open inotify instances
    watches,        \* kernel: fd -> set of watches [wd, path, mask]
    nextWd,         \* kernel: fd -> next watch descriptor to hand out
    queue,          \* kernel: fd -> pending events, oldest first
    emitted,        \* history: fd -> every event queued since the fd was opened
    returned,       \* history: fd -> concatenation of the batches get_events returned
    closedHandles,  \* history: handle values that have been closed
    poll,           \* the get_events call in flight (its position and locals)
    last            \* the outcome of the latest call (NoCall while it is in flight)

decodeVars == <<din, dout>>
sysVars == <<open, watches, nextWd, queue, emitted, returned, closedHandles, poll, last>>
vars == <<din, dout, open, watches, nextWd, queue, emitted, returned, closedHandles, poll, last>>

(***************************************************************************)
(* Bounds of the model.                                                    *)
(***************************************************************************)
MaxRecs == 2        \* records in one synthetic buffer
MaxGarbage == 2     \* non-NUL bytes lying right after the bytes read
MaxFds == 1         \* size of the descriptor table
MaxEmit == 1        \* file events in the histories of the open instances
MaxWd == 1          \* watch descriptors the open instances hand out (ENOSPC beyond)

(***************************************************************************)
(* Program constants.                                                      *)
(***************************************************************************)
BUF_LENGTH == 4096
HeaderSize == 16    \* sizeof(struct inotify_event): what event_p + 1 skips

(***************************************************************************)
(* 32-bit values.  A uint32_t field is kept as its two 16-bit halves, so   *)
(* that values of 2^31 and above can be written down.                      *)
(***************************************************************************)
U32(hi, lo) == [hi |-> hi, lo |-> lo]

U32Bytes(u) == <<u.lo % 256, u.lo \div 256, u.hi % 256, u.hi \div 256>>

\* two's complement bytes of a C int, little endian
I32Bytes(n) == U32Bytes(U32((n \div 65536) % 65536, n % 65536))

\* a Python int n denotes the same number as the uint32_t u
SameNumber(n, u) == n \div 65536 = u.hi /\ n % 65536 = u.lo

RECURSIVE Zeros(_)
Zeros(n) == IF n <= 0 THEN <<>> ELSE <<0>> \o Zeros(n - 1)

Max(a, b) == IF a >= b THEN a ELSE b

(***************************************************************************)
(* The wire form of one event, as the kernel writes it: the header (wd,    *)
(* mask, cookie, len) and len bytes of name, NUL-terminated and padded to  *)
(* a multiple of the header size; len is 0 when there is no name.          *)
(***************************************************************************)
NameFieldLen(name) ==
    IF name = <<>> THEN 0
    ELSE ((Len(name) + 1 + HeaderSize - 1) \div HeaderSize) * HeaderSize

EncodeEvent(e) ==
    I32Bytes(e.wd) \o U32Bytes(e.mask) \o U32Bytes(e.cookie)
        \o U32Bytes(U32(0, NameFieldLen(e.name)))
        \o e.name \o Zeros(NameFieldLen(e.name) - Len(e.name))

RECURSIVE EncodeEvents(_)
EncodeEvents(es) ==
    IF es = <<>> THEN <<>> ELSE EncodeEvent(Head(es)) \o EncodeEvents(Tail(es))

(***************************************************************************)
(* Memory as the decode loop sees it: char buffer[BUF_LENGTH] holds the    *)
(* `length` bytes read; what lies behind them was never written by the     *)
(* read, and is `garbage` non-NUL bytes followed by NULs.                  *)
(***************************************************************************)
Mem(buf, length, garbage) == [buf |-> buf, length |-> length, garbage |-> garbage]

ByteAt(m, off) ==
    IF off < m.length THEN m.buf[off + 1]
    ELSE IF off - m.length < m.garbage THEN 65 ELSE 0

\* an int32_t / a uint32_t handed to Py_BuildValue's "i": read as a C int
IntAt(m, off) ==
    ByteAt(m, off) + 256 * ByteAt(m, off + 1) + 65536 * ByteAt(m, off + 2)
        + 16777216 * (IF ByteAt(m, off + 3) >= 128 THEN ByteAt(m, off + 3) - 256
                      ELSE ByteAt(m, off + 3))

\* event_p->len used as a uint32_t in the pointer arithmetic
LenAt(m, off) ==
    ByteAt(m, off) + 256 * ByteAt(m, off + 1) + 65536 * ByteAt(m, off + 2)
        + 16777216 * ByteAt(m, off + 3)

\* Py_BuildValue's "s": the bytes from off up to the first NUL
RECURSIVE CString(_, _)
CString(m, off) ==
    IF ByteAt(m, off) = 0 THEN <<>> ELSE <<ByteAt(m, off)>> \o CString(m, off + 1)

(***************************************************************************)
(* binding_get_events, lines 151-175: the decode loop.                     *)
(*                                                                         *)
(* DecodeIter is one pass of the loop body at offset cursor: the event     *)
(* tuple built by Py_BuildValue("iiis", ...), the offset event_p moves to, *)
(* and the highest offset the pass reads.                                  *)
(***************************************************************************)
DecodeIter(m, cursor) ==
    LET len == LenAt(m, cursor + 12)
        name == IF len # 0 THEN CString(m, cursor + HeaderSize) ELSE <<>>
    IN  [event |-> <<IntAt(m, cursor), IntAt(m, cursor + 4), IntAt(m, cursor + 8), name>>,
         next |-> cursor + HeaderSize + len,
         hiRead |-> IF len # 0 THEN cursor + HeaderSize + Len(name)
                    ELSE cursor + HeaderSize - 1]

\* The loop from `cursor` on.  appends: how many PyList_Append calls succeed
\* before one returns -1 (negative: all succeed).
RECURSIVE DecodeLoop(_, _, _, _, _)
DecodeLoop(m, cursor, events, hiRead, appends) ==
    IF cursor >= m.length
    THEN [exc |-> "", events |-> events, cursor |-> cursor, hiRead |-> hiRead]
    ELSE LET it == DecodeIter(m, cursor)
         IN  IF appends = 0
             THEN [exc |-> "MemoryError", events |-> <<>>, cursor |-> cursor,
                   hiRead |-> Max(hiRead, it.hiRead)]
             ELSE DecodeLoop(m, it.next, Append(events, it.event),
                             Max(hiRead, it.hiRead),
                             IF appends < 0 THEN appends ELSE appends - 1)

Decode(buf, length, garbage, appends) ==
    DecodeLoop(Mem(buf, length, garbage), 0, <<>>, -1, appends)

(***************************************************************************)
(* Inputs of the decode loop: up to MaxRecs records in wire form, cut      *)
(* short by `cut` bytes, with `garbage` non-NUL bytes behind them.         *)
(***************************************************************************)
IN_CREATE == U32(0, 256)
IN_ISDIR_OPEN == U32(16384, 32)         \* IN_ISDIR | IN_OPEN
IN_IGNORED == U32(0, 32768)
NoCookie == U32(0, 0)
HighCookie == U32(32768, 1)             \* 2^31 + 1

RecSet ==
    [wd : {-1, 1}, mask : {IN_CREATE, IN_ISDIR_OPEN},
     cookie : {NoCookie, HighCookie}, name : {<<>>, <<97>>}]

RecSeqs == UNION {[1..n -> RecSet] : n \in 0..MaxRecs}

Cuts == {0, 4, 12, 20}

CutInput(rs, c, g) ==
    [recs |-> rs, buf |-> SubSeq(EncodeEvents(rs), 1, Len(EncodeEvents(rs)) - c),
     length |-> Len(EncodeEvents(rs)) - c, garbage |-> g]

DecodeInputs ==
    {CutInput(x[1], x[2], x[3]) :
        x \in {y \in RecSeqs \X Cuts \X (0..MaxGarbage) :
                   Len(EncodeEvents(y[1])) - y[2] > 0}}

NoInput == [recs |-> <<>>, buf |-> <<>>, length |-> 0, garbage |-> 0]
NoOutcome == [exc |-> "none", events |-> <<>>, cursor |-> 0, hiRead |-> -1]

\* the decode loop run over the bytes read
binding_decode ==
    /\ dout = NoOutcome
    /\ \E appends \in -1..(MaxRecs - 1) :
           dout' = Decode(din.buf, din.length, din.garbage, appends)
    /\ UNCHANGED <<din, sysVars>>

(***************************************************************************)
(* The kernel side: the descriptor table and the inotify instances.        *)
(***************************************************************************)
FdRange == 3..(2 + MaxFds)
ExistingPaths == {"/a"}
PathArgs == ExistingPaths \cup {"/missing"}
WdArgs == 1..(MaxWd + 1)
IN_ALL_EVENTS == {"IN_CREATE"}          \* the event kinds this kernel emits
MaskArgs ==
    {[given |-> FALSE, bits |-> {}], [given |-> TRUE, bits |-> {"IN_CREATE"}],
     [given |-> TRUE, bits |-> {}]}

NoTimeout == [kind |-> "absent", us |-> 0]
TimeoutArgs ==
    {NoTimeout, [kind |-> "None", us |-> 0], [kind |-> "num", us |-> 0],
     [kind |-> "num", us |-> 1500000]}

\* inotify_init(2): the lowest free descriptor, or -1 (EMFILE)
inotify_init ==
    IF FdRange \subseteq open THEN [ret |-> -1, errno |-> "EMFILE"]
    ELSE [ret |-> CHOOSE fd \in FdRange \ open :
                      \A other \in FdRange \ open : fd <= other,
          errno |-> ""]

\* watch descriptors handed out so far by the open instances
RECURSIVE WdsIssued(_)
WdsIssued(fds) ==
    IF fds = {} THEN 0
    ELSE LET fd == CHOOSE x \in fds : TRUE
         IN  (nextWd[fd] - 1) + WdsIssued(fds \ {fd})

WdsOf(fd) == {w.wd : w \in watches[fd]}

\* inotify_add_watch(2)
inotify_add_watch(fd, path, mask) ==
    IF fd \notin open THEN [ret |-> -1, errno |-> "EBADF", watches |-> watches[fd]]
    ELSE IF mask = {}
    THEN [ret |-> -1, errno |-> "EINVAL", watches |-> watches[fd]]
    ELSE IF path \notin ExistingPaths
    THEN [ret |-> -1, errno |-> "ENOENT", watches |-> watches[fd]]
    ELSE IF \E w \in watches[fd] : w.path = path
    THEN LET w == CHOOSE w \in watches[fd] : w.path = path
         IN  [ret |-> w.wd, errno |-> "",
              watches |-> (watches[fd] \ {w}) \cup {[w EXCEPT !.mask = mask]}]
    ELSE IF WdsIssued(open) >= MaxWd
    THEN [ret |-> -1, errno |-> "ENOSPC", watches |-> watches[fd]]
    ELSE [ret |-> nextWd[fd], errno |-> "",
          watches |-> watches[fd] \cup {[wd |-> nextWd[fd], path |-> path, mask |-> mask]}]

IgnoredEvent(wd) == [wd |-> wd, mask |-> IN_IGNORED, cookie |-> NoCookie, name |-> <<>>]

\* inotify_rm_watch(2): removing a watch queues IN_IGNORED for it
inotify_rm_watch(fd, wd) ==
    IF fd \notin open
    THEN [ret |-> -1, errno |-> "EBADF", watches |-> watches[fd], queued |-> <<>>]
    ELSE IF wd \notin WdsOf(fd)
    THEN [ret |-> -1, errno |-> "EINVAL", watches |-> watches[fd], queued |-> <<>>]
    ELSE [ret |-> 0, errno |-> "",
          watches |-> {w \in watches[fd] : w.wd # wd}, queued |-> <<IgnoredEvent(wd)>>]

\* select(2) on {fd} for reading, tv = NULL or a timeval: the results it can have
SelectOutcomes(fd, tv) ==
    IF fd \notin open THEN {[result |-> -1, errno |-> "EBADF"]}
    ELSE (IF queue[fd] # <<>> THEN {[result |-> 1, errno |-> ""]} ELSE {})
         \cup (IF queue[fd] = <<>> /\ ~tv.null THEN {[result |-> 0, errno |-> ""]} ELSE {})
         \cup (IF queue[fd] = <<>> /\ (tv.null \/ tv.sec > 0 \/ tv.usec > 0)
               THEN {[result |-> -1, errno |-> "EINTR"]} ELSE {})

\* how many whole events at the head of q fit into count bytes
RECURSIVE FitCount(_, _)
FitCount(q, count) ==
    IF q = <<>> \/ Len(EncodeEvent(Head(q))) > count THEN 0
    ELSE 1 + FitCount(Tail(q), count - Len(EncodeEvent(Head(q))))

\* read(2) of count bytes from fd: the results it can have
ReadOutcomes(fd, count) ==
    IF fd \notin open THEN {[length |-> -1, errno |-> "EBADF", n |-> 0, buf |-> <<>>]}
    ELSE IF queue[fd] = <<>> THEN {[length |-> -1, errno |-> "EINTR", n |-> 0, buf |-> <<>>]}
    ELSE LET n == FitCount(queue[fd], count)
             buf == EncodeEvents(SubSeq(queue[fd], 1, n))
         IN  {[length |-> Len(buf), errno |-> "", n |-> n, buf |-> buf],
              \* the next event does not fit: 0 before Linux 2.6.21, EINVAL since
              [length |-> 0, errno |-> "", n |-> 0, buf |-> <<>>],
              [length |-> -1, errno |-> "EINVAL", n |-> 0, buf |-> <<>>]}

(***************************************************************************)
(* What a call of the extension module gives back: a value, or a raised    *)
(* exception (exc # "").  For get_events the record also keeps what the    *)
(* call did: the waits and reads it made and what they returned.           *)
(***************************************************************************)
PyExc_IOError == "IOError"

NoCall ==
    [op |-> "none", fd |-> 0, wd |-> 0, stale |-> FALSE, exc |-> "", msg |-> "",
     val |-> 0, events |-> <<>>, timeout |-> NoTimeout,
     waits |-> 0, reads |-> 0, result |-> 0, length |-> 0]

Returned(op, fd, val) ==
    [NoCall EXCEPT !.op = op, !.fd = fd, !.stale = fd \in closedHandles, !.val = val]

\* PyErr_SetFromErrno(PyExc_IOError)
Raised(op, fd, errno) ==
    [NoCall EXCEPT !.op = op, !.fd = fd, !.stale = fd \in closedHandles,
                   !.exc = PyExc_IOError, !.msg = errno]

NullTimeval == [null |-> TRUE, sec |-> 0, usec |-> 0]
IdlePoll == [pc |-> "idle", fd |-> 0, timeout |-> NoTimeout, tv |-> NullTimeval, stale |-> FALSE]

NoHistory == [fd \in FdRange |-> <<>>]

SysInit ==
    /\ open = {}
    /\ watches = [fd \in FdRange |-> {}]
    /\ nextWd = [fd \in FdRange |-> 1]
    /\ queue = NoHistory
    /\ emitted = NoHistory
    /\ returned = NoHistory
    /\ closedHandles = {}
    /\ poll = IdlePoll
    /\ last = NoCall

(***************************************************************************)
(* binding_init, lines 35-48.                                              *)
(***************************************************************************)
binding_init ==
    LET r == inotify_init
    IN  /\ poll.pc = "idle"
        /\ IF r.ret = -1
           THEN /\ last' = Raised("init", 0, r.errno)
                /\ UNCHANGED open
           ELSE /\ open' = open \cup {r.ret}
                /\ last' = Returned("init", r.ret, r.ret)
        /\ UNCHANGED <<watches, nextWd, queue, emitted, returned, closedHandles, poll,
                       decodeVars>>

(***************************************************************************)
(* close_channel: the descriptor is released with close(2); the instance,  *)
(* its watches and its pending events go with it.                          *)
(***************************************************************************)
close_channel(fd) ==
    /\ poll.pc = "idle"
    /\ IF fd \notin open
       THEN /\ last' = Raised("close", fd, "EBADF")
            /\ UNCHANGED <<open, watches, nextWd, queue, emitted, returned, closedHandles>>
       ELSE /\ open' = open \ {fd}
            /\ emitted' = [emitted EXCEPT ![fd] = <<>>]
            /\ returned' = [returned EXCEPT ![fd] = <<>>]
            /\ watches' = [watches EXCEPT ![fd] = {}]
            /\ nextWd' = [nextWd EXCEPT ![fd] = 1]
            /\ queue' = [queue EXCEPT ![fd] = <<>>]
            /\ closedHandles' = closedHandles \cup {fd}
            /\ last' = Returned("close", fd, 0)
    /\ UNCHANGED <<poll, decodeVars>>

(***************************************************************************)
(* binding_add_watch, lines 50-72.  The mask defaults to IN_ALL_EVENTS.    *)
(***************************************************************************)
binding_add_watch(fd, path, maskArg) ==
    LET mask == IF maskArg.given THEN maskArg.bits ELSE IN_ALL_EVENTS
        r == inotify_add_watch(fd, path, mask)
    IN  /\ poll.pc = "idle"
        /\ watches' = [watches EXCEPT ![fd] = r.watches]
        /\ nextWd' = [nextWd EXCEPT ![fd] = IF r.ret = @ THEN @ + 1 ELSE @]
        /\ last' = IF r.ret = -1 THEN Raised("add_watch", fd, r.errno)
                   ELSE Returned("add_watch", fd, r.ret)
        /\ UNCHANGED <<open, queue, emitted, returned, closedHandles, poll, decodeVars>>

(***************************************************************************)
(* binding_rm_watch, lines 74-93.                                          *)
(***************************************************************************)
\* as binding_rm_watch, without the test of result at line 89
binding_rm_watch_unchecked(fd, wd) ==
    LET r == inotify_rm_watch(fd, wd)
    IN  /\ poll.pc = "idle"
        /\ watches' = [watches EXCEPT ![fd] = r.watches]
        /\ queue' = [queue EXCEPT ![fd] = @ \o r.queued]
        /\ emitted' = [emitted EXCEPT ![fd] = @ \o r.queued]
        /\ last' = [Returned("rm_watch", fd, 0) EXCEPT !.wd = wd]
        /\ UNCHANGED <<open, nextWd, returned, closedHandles, poll, decodeVars>>

binding_rm_watch(fd, wd) ==
    LET r == inotify_rm_watch(fd, wd)
    IN  /\ poll.pc = "idle"
        /\ watches' = [watches EXCEPT ![fd] = r.watches]
        /\ queue' = [queue EXCEPT ![fd] = @ \o r.queued]
        /\ emitted' = [emitted EXCEPT ![fd] = @ \o r.queued]
        /\ last' = [(IF r.ret = -1 THEN Raised("rm_watch", fd, r.errno)
                     ELSE Returned("rm_watch", fd, 0)) EXCEPT !.wd = wd]
        /\ UNCHANGED <<open, nextWd, returned, closedHandles, poll, decodeVars>>

(***************************************************************************)
(* The kernel queues an event of a kind a watch asked for.                 *)
(***************************************************************************)
\* a file named "a" is created in the watched directory
FileEvent(wd, kind) == [wd |-> wd, mask |-> IN_CREATE, cookie |-> NoCookie, name |-> <<97>>]

RECURSIVE FileEvents(_)
FileEvents(fds) ==
    IF fds = {} THEN 0
    ELSE LET fd == CHOOSE x \in fds : TRUE
         IN  Len(SelectSeq(emitted[fd], LAMBDA e : e.mask # IN_IGNORED))
                 + FileEvents(fds \ {fd})

KernelEmit(fd, path, kind) ==
    /\ fd \in open
    /\ FileEvents(open) < MaxEmit
    /\ \E w \in watches[fd] :
           /\ w.path = path /\ kind \in w.mask
           /\ queue' = [queue EXCEPT ![fd] = Append(@, FileEvent(w.wd, kind))]
           /\ emitted' = [emitted EXCEPT ![fd] = Append(@, FileEvent(w.wd, kind))]
    /\ UNCHANGED <<open, watches, nextWd, returned, closedHandles, poll, last, decodeVars>>

(***************************************************************************)
(* binding_get_events, lines 94-176, in the three steps its two blocking   *)
(* system calls cut it into (the interpreter lock is released around       *)
(* each); the kernel queues events in between.  The calls of the module   *)
(* come from one thread: a call starts when no get_events is in flight.   *)
(***************************************************************************)
PollOutcome(exc, msg, events, reads, result, length) ==
    [NoCall EXCEPT !.op = "get_events", !.fd = poll.fd, !.stale = poll.stale,
                   !.exc = exc, !.msg = msg, !.events = events,
                   !.timeout = poll.timeout, !.waits = 1, !.reads = reads,
                   !.result = result, !.length = length]

\* lines 114-123: timeout_p stays NULL for None, else the timeval of the number
Timeval(timeout) ==
    IF timeout.kind = "None" THEN NullTimeval
    ELSE [null |-> FALSE, sec |-> timeout.us \div 1000000, usec |-> timeout.us % 1000000]

\* lines 111-126: the arguments.  With the timeout left out timeout_o is
\* still NULL, which is not Py_None, and PyFloat_AsDouble(NULL) raises.
binding_get_events_call(fd, timeout) ==
    /\ poll.pc = "idle"
    /\ IF timeout.kind = "absent"
       THEN /\ last' = [NoCall EXCEPT !.op = "get_events", !.fd = fd,
                                      !.stale = fd \in closedHandles,
                                      !.exc = "TypeError",
                                      !.msg = "bad argument type for built-in operation"]
            /\ UNCHANGED poll
       ELSE /\ poll' = [pc |-> "select", fd |-> fd, timeout |-> timeout,
                        tv |-> Timeval(timeout), stale |-> fd \in closedHandles]
            /\ last' = NoCall
    /\ UNCHANGED <<open, watches, nextWd, queue, emitted, returned, closedHandles, decodeVars>>

\* as binding_get_events_select, with line 132 testing result <= 0
binding_get_events_select_noexpiry ==
    /\ poll.pc = "select"
    /\ \E o \in SelectOutcomes(poll.fd, poll.tv) :
           IF o.result <= 0
           THEN /\ last' = PollOutcome(PyExc_IOError, o.errno, <<>>, 0, o.result, 0)
                /\ poll' = IdlePoll
           ELSE /\ poll' = [poll EXCEPT !.pc = "read"]
                /\ UNCHANGED last
    /\ UNCHANGED <<open, watches, nextWd, queue, emitted, returned, closedHandles, decodeVars>>

\* lines 128-136: select returns
binding_get_events_select ==
    /\ poll.pc = "select"
    /\ \E o \in SelectOutcomes(poll.fd, poll.tv) :
           IF o.result = -1
           THEN /\ last' = PollOutcome(PyExc_IOError, o.errno, <<>>, 0, -1, 0)
                /\ poll' = IdlePoll
           ELSE IF o.result = 0
           THEN /\ last' = PollOutcome("", "", <<>>, 0, 0, 0)
                /\ poll' = IdlePoll
           ELSE /\ poll' = [poll EXCEPT !.pc = "read"]
                /\ UNCHANGED last
    /\ UNCHANGED <<open, watches, nextWd, queue, emitted, returned, closedHandles, decodeVars>>

\* lines 138-175: read returns, and the bytes read are decoded
binding_get_events_read ==
    /\ poll.pc = "read"
    /\ \E o \in ReadOutcomes(poll.fd, BUF_LENGTH) :
           IF o.length = -1
           THEN /\ last' = PollOutcome(PyExc_IOError, o.errno, <<>>, 1, 1, -1)
                /\ UNCHANGED <<queue, returned>>
           ELSE IF o.length = 0
           THEN /\ last' = PollOutcome(PyExc_IOError, "event buffer too small", <<>>, 1, 1, 0)
                /\ UNCHANGED <<queue, returned>>
           ELSE \E appends \in -1..(o.n - 1), garbage \in {0, MaxGarbage} :
                    LET d == Decode(o.buf, o.length, garbage, appends)
                    IN  /\ queue' = [queue EXCEPT ![poll.fd] = SubSeq(@, o.n + 1, Len(@))]
                        /\ last' = PollOutcome(d.exc, "", d.events, 1, 1, o.length)
                        /\ returned' = [returned EXCEPT ![poll.fd] = @ \o d.events]
    /\ poll' = IdlePoll
    /\ UNCHANGED <<open, watches, nextWd, emitted, closedHandles, decodeVars>>

(***************************************************************************)
(* The specifications.                                                     *)
(***************************************************************************)
Init == SysInit /\ din = NoInput /\ dout = NoOutcome

Next ==
    \/ binding_init
    \/ \E fd \in FdRange : close_channel(fd)
    \/ \E fd \in FdRange, path \in PathArgs, maskArg \in MaskArgs :
           binding_add_watch(fd, path, maskArg)
    \/ \E fd \in FdRange, wd \in WdArgs : binding_rm_watch(fd, wd)
    \/ \E fd \in FdRange, path \in ExistingPaths, kind \in IN_ALL_EVENTS :
           KernelEmit(fd, path, kind)
    \/ \E fd \in FdRange, timeout \in TimeoutArgs : binding_get_events_call(fd, timeout)
    \/ binding_get_events_select
    \/ binding_get_events_read

Spec == Init /\ [][Next]_vars

InitDecode == SysInit /\ din \in DecodeInputs /\ dout = NoOutcome

NextDecode == binding_decode

SpecDecode == InitDecode /\ [][NextDecode]_vars

(***************************************************************************)
(* Properties.                                                             *)
(***************************************************************************)
\* the Python tuple t is the event e: the same numbers and the same name
EventMatches(t, e) ==
    /\ t[1] = e.wd
    /\ SameNumber(t[2], e.mask)
    /\ SameNumber(t[3], e.cookie)
    /\ t[4] = e.name

\* the bytes decoded are whole records: length falls on a record boundary
WholeRecords(in) ==
    \E k \in 0..Len(in.recs) : Len(EncodeEvents(SubSeq(in.recs, 1, k))) = in.length

Decoded == dout # NoOutcome

\* C1: decoding a buffer of N back-to-back well-formed records returns
\* exactly N tuples, in buffer order, each equal to the encoded (wd, mask,
\* cookie, name), the name being the bytes up to the first NUL ("" for a
\* name length of 0), and the cursor ends exactly at length.
C1_RoundTrip ==
    (dout.exc = "" /\ din.length = Len(EncodeEvents(din.recs)))
        => /\ Len(dout.events) = Len(din.recs)
           /\ \A i \in 1..Len(dout.events) : EventMatches(dout.events[i], din.recs[i])
           /\ dout.cursor = din.length

\* C2: a buffer cut short inside a record is rejected: the decode loop never
\* returns a list of events for it.
C2_TruncatedRejected ==
    (Decoded /\ ~WholeRecords(din)) => dout.exc # ""

\* C9: the decode loop reads no byte at an offset >= length, whatever the
\* buffer holds.
C9_NoReadPastLength ==
    Decoded => dout.hiRead < din.length

ZeroTimeval(tv) == ~tv.null /\ tv.sec = 0 /\ tv.usec = 0

\* C3: when the wait expires with no data ready, get_events returns the
\* empty list, raises nothing and reads nothing; with a timeout of 0 and no
\* event pending the wait does not block and expiry is its only result.
C3_ExpiryReturnsEmpty ==
    /\ (last.op = "get_events" /\ last.waits = 1 /\ last.result = 0)
           => (last.exc = "" /\ last.events = <<>> /\ last.reads = 0)
    /\ (poll.pc = "select" /\ ZeroTimeval(poll.tv) /\ poll.fd \in open
            /\ queue[poll.fd] = <<>>)
           => /\ ENABLED binding_get_events_select
              /\ \A o \in SelectOutcomes(poll.fd, poll.tv) : o.result = 0

C3_Witness ==
    /\ last.op = "get_events" /\ last.waits = 1 /\ last.result = 0
    /\ last.timeout = [kind |-> "num", us |-> 0]
    /\ last.fd \in open /\ queue[last.fd] = <<>>
    /\ last.events = <<>> /\ last.exc = ""

\* C4: with the timeout None or left out, get_events returns only once the
\* wait found the descriptor readable or failed: it never returns because
\* the wait expired, and never fails for the lack of a timeout.
C4_NoTimeoutBlocks ==
    (last.op = "get_events" /\ last.timeout.kind \in {"None", "absent"})
        => (last.waits = 1 /\ last.result # 0 /\ last.exc # "TypeError")

\* C5: a read of 0 bytes after the wait reported readiness raises an error
\* of another type than the IOError of a failed wait or read.
C5_BufferTooSmallDistinct ==
    (last.op = "get_events" /\ last.reads = 1 /\ last.length = 0)
        => (last.exc # "" /\ last.exc # PyExc_IOError)

\* C6: every get_events call makes exactly one wait and at most one read,
\* the read exactly when the wait reported the descriptor readable, and a
\* failed wait or read is raised as IOError.
C6_OneWaitOneRead ==
    last.op = "get_events"
        => /\ last.waits = 1
           /\ last.reads <= 1
           /\ (last.reads = 1 <=> last.result = 1)
           /\ (last.result = -1 \/ last.length = -1) => last.exc = PyExc_IOError

\* C7: once a handle has been closed, every later add_watch, rm_watch and
\* get_events call with that handle raises IOError, whatever else was
\* called in between (for get_events: every call that reaches its wait).
C7_ClosedHandleGuard ==
    (/\ last.stale
     /\ \/ last.op \in {"add_watch", "rm_watch"}
        \/ last.op = "get_events" /\ last.waits = 1)
        => last.exc = PyExc_IOError

\* C8: rm_watch with a watch descriptor that is not valid on the channel
\* raises IOError and leaves the channel's watches and its pending events
\* as they were.
C8_RmInvalidWatch ==
    [][(/\ last'.op = "rm_watch"
        /\ last'.fd \in open /\ last'.wd \notin WdsOf(last'.fd)
        /\ binding_rm_watch(last'.fd, last'.wd))
           => (last'.exc = PyExc_IOError /\ watches' = watches /\ queue' = queue)]_vars

C8_Witness ==
    /\ last.op = "rm_watch" /\ last.fd \in open
    /\ last.wd \notin WdsOf(last.fd) /\ watches[last.fd] # {}
    /\ last.exc = PyExc_IOError /\ last.msg = "EINVAL"

\* C10: on every open channel the batches returned so far, put end to end,
\* are a prefix of the events the kernel queued, and the rest is still
\* pending: no event is lost, duplicated or reordered, and a call that
\* ended in an expiry or an error has consumed none.
C10_NoEventLost ==
    \A fd \in open :
        /\ Len(returned[fd]) + Len(queue[fd]) = Len(emitted[fd])
        /\ \A i \in 1..Len(returned[fd]) :
               i <= Len(emitted[fd]) => EventMatches(returned[fd][i], emitted[fd][i])
        /\ \A j \in 1..Len(queue[fd]) :
               Len(returned[fd]) + j <= Len(emitted[fd])
                   => queue[fd][j] = emitted[fd][Len(returned[fd]) + j]

====
